---- MODULE Spec2Model ----
(***************************************************************************)
(* The HLS transcode job manager of localcinema: the job registry hlsJobs  *)
(* guarded by hlsJobsMu, getOrStartHLS, TouchHLS, StopHLS, the reaper      *)
(* goroutine of StartHLSReaper, the runner goroutine of every launched     *)
(* job, the ffmpeg child process of every launched job, and the cache      *)
(* directories <hlsCacheDir>/<key> they all share.                         *)
(*                                                                         *)
(* Goroutines interleave at every access to shared state: the registry and *)
(* its mutex, the fields of a job, the child process and the file system.  *)
(* Statements that touch nothing shared are folded into the step before    *)
(* them.  The unsynchronised reads of job.Cmd.Process and job.Cached in    *)
(* StopHLS race with the runner goroutine; both orders of every such race  *)
(* are behaviours of the model.                                            *)
(***************************************************************************)
EXTENDS Integers, Sequences, FiniteSets, TLC

\* ---------------------------------------------------------------- bounds
NumCallers == 2
MaxJobs == 3
MaxSegs == 1
MaxMtime == 1
MaxTicks == 7
StartTime == 1

\* ------------------------------------------------------ program constants
hlsIdleTimeout == 60
reaperPeriod == 10

Callers == 1..NumCallers
JobIds == 1..MaxJobs
Paths == {"foo.mkv"}
Keys == Paths \X (0..MaxMtime)

VARIABLES
    now,        \* time.Now().Unix()
    mtime,      \* modification time of every source file
    hlsJobsMu,  \* 0 when unlocked, else the caller of getOrStartHLS holding it
    hlsJobs,    \* key -> job id, 0 when the map has no entry
    jobs,       \* the HLSJob objects allocated so far, by id
    evicted,    \* ids of the jobs StopHLS has deleted from hlsJobs (history)
    rpc,        \* position of the runner goroutine of every job
    proc,       \* state of the ffmpeg child process of every job
    fs,         \* the cache directory of every key
    cpc,        \* position of every caller of getOrStartHLS
    ckey,       \* key computed by the caller
    cret,       \* what the last call returned: a job id, -1 for an error, 0 none yet
    reaper,     \* position of the reaper goroutine
    idleKeys,   \* keys collected by the reaper and not yet stopped
    spc,        \* position of the reaper inside StopHLS
    sjob,       \* the job StopHLS found under its key
    main,       \* position of func main
    hreq,       \* the request handleHLS is serving
    play        \* the file handlePlay is classifying

\* What the job manager does not touch.
aux == <<main, hreq, play>>

vars == <<now, mtime, hlsJobsMu, hlsJobs, jobs, evicted, rpc, proc, fs,
          cpc, ckey, cret, reaper, idleKeys, spc, sjob, main, hreq, play>>

\* ------------------------------------------------------------ file system
NoDir == [exists |-> FALSE, playlist |-> "none", segs |-> 0, writers |-> {}]

\* What an earlier run of the program can have left under the key of the file
\* as it is at start-up: nothing, the artifact of a finished transcode, or the
\* partial artifact of a run that was interrupted.  Writer 0 stands for the
\* earlier run.  A key of a later modification time has no directory yet.
Leftovers ==
    { NoDir,
      [exists |-> TRUE, playlist |-> "complete", segs |-> 1, writers |-> {0}],
      [exists |-> TRUE, playlist |-> "partial", segs |-> 1, writers |-> {0}] }

RemoveAll(k) == [fs EXCEPT ![k] = NoDir]

MkdirAll(k) == [fs EXCEPT ![k].exists = TRUE]

\* A cache check that is content with any playlist, finished or not.
isCacheCompleteAnyPlaylist(k) == fs[k].exists /\ fs[k].playlist # "none"

\* os.ReadFile(stream.m3u8) succeeds and the data contains #EXT-X-ENDLIST.
isCacheComplete(k) == fs[k].exists /\ fs[k].playlist = "complete"

\* ------------------------------------------------------------------ keys
\* A key computed from the path alone.
hlsJobKeyOfPath(p) == <<p, 0>>

\* The first 8 bytes of md5(path + "|" + ModTime().UnixNano()), in hex.  The
\* hashed string determines the pair (path, mtime) and the pair determines it;
\* the key stands for the pair, distinct pairs having distinct keys.
hlsJobKey(p) == <<p, mtime[p]>>

\* ------------------------------------------------------------------ jobs
nJobs == Len(jobs)

Allocated == 1..nJobs

\* key is the map key the job was inserted under; Cmd is TRUE for a non-nil
\* *exec.Cmd, Done is TRUE once the channel is closed.
HLSJob(k, cmd, cached, done) ==
    [key |-> k, Dir |-> k, Cmd |-> cmd, Cached |-> cached, Done |-> done,
     lastAccess |-> now]

ProcessSet(j) == proc[j] \in {"run", "ok", "err"}

Live(j) == proc[j] = "run"

InRegistry(j) == \E k \in Keys : hlsJobs[k] = j

\* A mutex that excludes no one.
LockIgnored == TRUE

\* hlsJobsMu.Lock() returns only while no one holds the mutex.
Unlocked == hlsJobsMu = 0

\* A lookup that passes over a resident job whose run has failed.
FoundUnlessFailed(k) ==
    /\ hlsJobs[k] # 0
    /\ ~(jobs[hlsJobs[k]].Done /\ ~jobs[hlsJobs[k]].Cached)

\* job, ok := hlsJobs[key] in getOrStartHLS: any resident job counts, whatever
\* became of its process.
Found(k) == hlsJobs[k] # 0

\* A runner that takes every exit of the child for a success.
RunErrNever(j) == FALSE

\* err != nil after cmd.Run(): the child was killed or exited non-zero.
RunErr(j) == proc[j] # "ok"

\* A process that has just started: an empty registry, no goroutine but the
\* reaper, and on disk whatever an earlier run left.
InitRegistry ==
    /\ now = StartTime
    /\ mtime = [p \in Paths |-> 0]
    /\ hlsJobsMu = 0
    /\ hlsJobs = [k \in Keys |-> 0]
    /\ jobs = <<>>
    /\ evicted = {}
    /\ rpc = [j \in JobIds |-> "none"]
    /\ proc = [j \in JobIds |-> "none"]
    /\ fs \in {f \in [Keys -> Leftovers] : \A k \in Keys : k[2] > 0 => f[k] = NoDir}
    /\ cpc = [c \in Callers |-> "idle"]
    /\ ckey = [c \in Callers |-> <<"foo.mkv", 0>>]
    /\ cret = [c \in Callers |-> 0]
    /\ reaper = "sleep"
    /\ idleKeys = {}
    /\ spc = "idle"
    /\ sjob = 0

\* No request for an artifact yet: status 0 is no response, dir <<>> no
\* directory, job 0 no job; at is the time the last accepted request came in,
\* the start of the server before the first.
NoRequest ==
    [pc |-> "idle", key |-> <<"foo.mkv", 0>>, name |-> <<>>, job |-> 0,
     dir |-> <<>>, polls |-> 0, status |-> 0, at |-> StartTime]

\* No file is being classified and no command is being built for one: probe
\* is what ffprobe will answer and goos the platform, codec and args what
\* getOrStartHLS makes of them.
NoPlay ==
    [pc |-> "idle", ret |-> "none", name |-> <<>>, stat |-> TRUE, size |-> 0,
     open |-> TRUE, boxes |-> <<>>, offset |-> <<0, 0, 0, 0>>,
     moov |-> "none", useHLS |-> "none",
     probe |-> [err |-> TRUE, out |-> <<>>], goos |-> "linux",
     codec |-> <<>>, args |-> <<>>]

\* main is past the --clear-cache test and serves.
Init == InitRegistry /\ main = "serve" /\ hreq = NoRequest /\ play = NoPlay

\* ------------------------------------------------------- the source file
\* The source file is overwritten: os.Stat reports a later ModTime.  Spec keeps
\* the file as it is; the step is for specifications about a changing file.
ModifyFile(p) ==
    /\ mtime[p] < MaxMtime
    /\ mtime' = [mtime EXCEPT ![p] = @ + 1]
    /\ UNCHANGED <<now, hlsJobsMu, hlsJobs, jobs, evicted, rpc, proc, fs,
                   cpc, ckey, cret, reaper, idleKeys, spc, sjob>>
    /\ UNCHANGED aux

\* ---------------------------------------------------------- getOrStartHLS
\* key := hlsJobKey(filePath), before the lock is requested.
GosKey(c, p) ==
    /\ cpc[c] = "idle"
    /\ nJobs + Cardinality({d \in Callers : cpc[d] # "idle"}) < MaxJobs
    /\ cpc' = [cpc EXCEPT ![c] = "lock"]
    /\ ckey' = [ckey EXCEPT ![c] = hlsJobKey(p)]
    /\ cret' = [cret EXCEPT ![c] = 0]
    /\ UNCHANGED <<now, mtime, hlsJobsMu, hlsJobs, jobs, evicted, rpc, proc,
                   fs, reaper, idleKeys, spc, sjob>>
    /\ UNCHANGED aux

\* Lock; an existing entry is returned; else a complete cache is adopted; else
\* the caller goes on to MkdirAll with the lock held.
GosAdmit(c) ==
    LET k == ckey[c]
        j == nJobs + 1
    IN  /\ cpc[c] = "lock"
        /\ Unlocked
        /\ IF Found(k)
           THEN /\ cpc' = [cpc EXCEPT ![c] = "idle"]
                /\ cret' = [cret EXCEPT ![c] = hlsJobs[k]]
                /\ UNCHANGED <<hlsJobsMu, hlsJobs, jobs>>
           ELSE IF isCacheComplete(k)
           THEN /\ jobs' = Append(jobs, HLSJob(k, FALSE, TRUE, TRUE))
                /\ hlsJobs' = [hlsJobs EXCEPT ![k] = j]
                /\ cpc' = [cpc EXCEPT ![c] = "idle"]
                /\ cret' = [cret EXCEPT ![c] = j]
                /\ UNCHANGED hlsJobsMu
           ELSE /\ hlsJobsMu' = c
                /\ cpc' = [cpc EXCEPT ![c] = "mkdir"]
                /\ UNCHANGED <<hlsJobs, jobs, cret>>
        /\ UNCHANGED <<now, mtime, evicted, rpc, proc, fs, ckey, reaper,
                       idleKeys, spc, sjob>>
        /\ UNCHANGED aux

\* MkdirAll; on error unlock and return the error; else probe, build the
\* command, insert the job, unlock, start the runner goroutine, return the job.
GosLaunch(c) ==
    LET k == ckey[c]
        j == nJobs + 1
    IN  /\ cpc[c] = "mkdir"
        /\ \/ /\ hlsJobsMu' = 0
              /\ cpc' = [cpc EXCEPT ![c] = "idle"]
              /\ cret' = [cret EXCEPT ![c] = -1]
              /\ UNCHANGED <<fs, jobs, hlsJobs, rpc>>
           \/ /\ fs' = MkdirAll(k)
              /\ jobs' = Append(jobs, HLSJob(k, TRUE, FALSE, FALSE))
              /\ hlsJobs' = [hlsJobs EXCEPT ![k] = j]
              /\ hlsJobsMu' = 0
              /\ rpc' = [rpc EXCEPT ![j] = "spawned"]
              /\ cpc' = [cpc EXCEPT ![c] = "idle"]
              /\ cret' = [cret EXCEPT ![c] = j]
        /\ UNCHANGED <<now, mtime, evicted, proc, ckey, reaper, idleKeys,
                       spc, sjob>>
        /\ UNCHANGED aux

\* --------------------------------------------------- the runner goroutine
\* cmd.Run() starts the child, or fails to: then err != nil at once, the
\* directory is removed and only close(job.Done) is left.
RunnerStart(j) ==
    /\ rpc[j] = "spawned"
    /\ \/ /\ proc' = [proc EXCEPT ![j] = "run"]
          /\ rpc' = [rpc EXCEPT ![j] = "wait"]
          /\ UNCHANGED fs
       \/ /\ proc' = [proc EXCEPT ![j] = "nostart"]
          /\ rpc' = [rpc EXCEPT ![j] = "close"]
          /\ fs' = RemoveAll(jobs[j].Dir)
    /\ UNCHANGED <<now, mtime, hlsJobsMu, hlsJobs, jobs, evicted, cpc, ckey,
                   cret, reaper, idleKeys, spc, sjob>>
    /\ UNCHANGED aux

\* cmd.Run() returns: on err RemoveAll(cacheDir), else job.Cached = true.
RunnerExit(j) ==
    /\ rpc[j] = "wait"
    /\ proc[j] \in {"ok", "err"}
    /\ IF RunErr(j)
       THEN /\ fs' = RemoveAll(jobs[j].Dir)
            /\ UNCHANGED jobs
       ELSE /\ jobs' = [jobs EXCEPT ![j].Cached = TRUE]
            /\ UNCHANGED fs
    /\ rpc' = [rpc EXCEPT ![j] = "close"]
    /\ UNCHANGED <<now, mtime, hlsJobsMu, hlsJobs, evicted, proc, cpc, ckey,
                   cret, reaper, idleKeys, spc, sjob>>
    /\ UNCHANGED aux

\* defer close(job.Done)
RunnerDone(j) ==
    /\ rpc[j] = "close"
    /\ jobs' = [jobs EXCEPT ![j].Done = TRUE]
    /\ rpc' = [rpc EXCEPT ![j] = "end"]
    /\ UNCHANGED <<now, mtime, hlsJobsMu, hlsJobs, evicted, proc, fs, cpc,
                   ckey, cret, reaper, idleKeys, spc, sjob>>
    /\ UNCHANGED aux

\* ------------------------------------------------------ the ffmpeg child
\* The child writes a segment and lists it in the playlist.
ProcWrite(j) ==
    LET k == jobs[j].Dir
    IN  /\ Live(j)
        /\ fs[k].exists
        /\ fs[k].segs < MaxSegs
        /\ fs' = [fs EXCEPT ![k] = [exists |-> TRUE, playlist |-> "partial",
                                    segs |-> fs[k].segs + 1,
                                    writers |-> fs[k].writers \cup {j}]]
        /\ UNCHANGED <<now, mtime, hlsJobsMu, hlsJobs, jobs, evicted, rpc,
                       proc, cpc, ckey, cret, reaper, idleKeys, spc, sjob>>
        /\ UNCHANGED aux

\* The child flushes its last segment, writes the playlist with
\* #EXT-X-ENDLIST and exits with code 0.
ProcFinish(j) ==
    LET k == jobs[j].Dir
    IN  /\ Live(j)
        /\ fs[k].exists
        /\ fs' = [fs EXCEPT ![k] = [exists |-> TRUE, playlist |-> "complete",
                                    segs |-> IF fs[k].segs = 0 THEN 1
                                             ELSE fs[k].segs,
                                    writers |-> fs[k].writers \cup {j}]]
        /\ proc' = [proc EXCEPT ![j] = "ok"]
        /\ UNCHANGED <<now, mtime, hlsJobsMu, hlsJobs, jobs, evicted, rpc,
                       cpc, ckey, cret, reaper, idleKeys, spc, sjob>>
        /\ UNCHANGED aux

\* The child exits with a non-zero code (bad input, or its directory is gone).
ProcFail(j) ==
    /\ Live(j)
    /\ proc' = [proc EXCEPT ![j] = "err"]
    /\ UNCHANGED <<now, mtime, hlsJobsMu, hlsJobs, jobs, evicted, rpc, fs,
                   cpc, ckey, cret, reaper, idleKeys, spc, sjob>>
    /\ UNCHANGED aux

\* --------------------------------------------------------------- TouchHLS
\* A touch that keeps hold of the job it last saw under the key: when the map
\* has no entry it stores into the newest job ever created for the key.
TouchedStale(k) ==
    IF hlsJobs[k] # 0 THEN hlsJobs[k]
    ELSE IF \E j \in 1..Len(jobs) : jobs[j].key = k
         THEN CHOOSE j \in 1..Len(jobs) :
                  /\ jobs[j].key = k
                  /\ \A i \in 1..Len(jobs) : jobs[i].key = k => i <= j
         ELSE 0

\* A touch that passes over a resident job whose process has failed.
TouchedUnlessFailed(k) ==
    IF hlsJobs[k] # 0 /\ proc[hlsJobs[k]] \in {"err", "nostart"} THEN 0
    ELSE hlsJobs[k]

\* if job, ok := hlsJobs[key]; ok: the job touched, 0 when the map has no entry.
Touched(k) == hlsJobs[k]

TouchHLS(k) ==
    /\ Unlocked
    /\ IF Touched(k) # 0
       THEN jobs' = [jobs EXCEPT ![Touched(k)].lastAccess = now]
       ELSE UNCHANGED jobs
    /\ UNCHANGED <<now, mtime, hlsJobsMu, hlsJobs, evicted, rpc, proc, fs,
                   cpc, ckey, cret, reaper, idleKeys, spc, sjob>>
    /\ UNCHANGED aux

\* ---------------------------------------------------------------- StopHLS
\* Lock; job, ok := hlsJobs[key]; delete; unlock.
StopDelete(k) ==
    /\ Unlocked
    /\ spc = "idle"
    /\ IF hlsJobs[k] # 0
       THEN /\ sjob' = hlsJobs[k]
            /\ hlsJobs' = [hlsJobs EXCEPT ![k] = 0]
            /\ evicted' = evicted \cup {hlsJobs[k]}
            /\ spc' = "kill"
       ELSE UNCHANGED <<sjob, hlsJobs, evicted, spc>>

\* if ok && job.Cmd != nil && job.Cmd.Process != nil && !job.Cached { Kill
StopKill ==
    /\ spc = "kill"
    /\ IF jobs[sjob].Cmd /\ ProcessSet(sjob) /\ ~jobs[sjob].Cached
       THEN /\ proc' = [proc EXCEPT ![sjob] = IF @ = "run" THEN "err" ELSE @]
            /\ spc' = "rm"
       ELSE /\ spc' = "idle"
            /\ UNCHANGED proc
    /\ UNCHANGED <<now, mtime, hlsJobsMu, hlsJobs, jobs, evicted, rpc, fs,
                   cpc, ckey, cret, reaper, idleKeys, sjob>>
    /\ UNCHANGED aux

\* os.RemoveAll(job.Dir) }
StopRemove ==
    /\ spc = "rm"
    /\ fs' = RemoveAll(jobs[sjob].Dir)
    /\ spc' = "idle"
    /\ UNCHANGED <<now, mtime, hlsJobsMu, hlsJobs, jobs, evicted, rpc, proc,
                   cpc, ckey, cret, reaper, idleKeys, sjob>>
    /\ UNCHANGED aux

\* --------------------------------------------------------- StartHLSReaper
\* The ticker fires every reaperPeriod seconds; the sweep of one tick is over
\* before the next tick.
Tick ==
    /\ reaper = "sleep"
    /\ now + reaperPeriod <= StartTime + MaxTicks * reaperPeriod
    /\ now' = now + reaperPeriod
    /\ reaper' = "woken"
    /\ UNCHANGED <<mtime, hlsJobsMu, hlsJobs, jobs, evicted, rpc, proc, fs,
                   cpc, ckey, cret, idleKeys, spc, sjob>>
    /\ UNCHANGED aux

\* An idle test that lets a job live one ticker period longer.
IdleLate(j) ==
    /\ jobs[j].lastAccess > 0
    /\ now - jobs[j].lastAccess > hlsIdleTimeout + reaperPeriod

\* last > 0 && now-last > hlsIdleTimeout
Idle(j) == jobs[j].lastAccess > 0 /\ now - jobs[j].lastAccess > hlsIdleTimeout

ReaperScan ==
    /\ reaper = "woken"
    /\ Unlocked
    /\ idleKeys' = {k \in Keys : hlsJobs[k] # 0 /\ Idle(hlsJobs[k])}
    /\ reaper' = "sweep"
    /\ UNCHANGED <<now, mtime, hlsJobsMu, hlsJobs, jobs, evicted, rpc, proc,
                   fs, cpc, ckey, cret, spc, sjob>>
    /\ UNCHANGED aux

ReaperStop(k) ==
    /\ reaper = "sweep"
    /\ k \in idleKeys
    /\ StopDelete(k)
    /\ idleKeys' = idleKeys \ {k}
    /\ UNCHANGED <<now, mtime, hlsJobsMu, jobs, rpc, proc, fs, cpc, ckey,
                   cret, reaper>>
    /\ UNCHANGED aux

ReaperSleep ==
    /\ reaper = "sweep"
    /\ idleKeys = {}
    /\ spc = "idle"
    /\ reaper' = "sleep"
    /\ UNCHANGED <<now, mtime, hlsJobsMu, hlsJobs, jobs, evicted, rpc, proc,
                   fs, cpc, ckey, cret, idleKeys, spc, sjob>>
    /\ UNCHANGED aux

\* ------------------------------------------------------------------ Next
Next ==
    \/ \E c \in Callers, p \in Paths : GosKey(c, p)
    \/ \E c \in Callers : GosAdmit(c)
    \/ \E c \in Callers : GosLaunch(c)
    \/ \E j \in JobIds : RunnerStart(j)
    \/ \E j \in JobIds : RunnerExit(j)
    \/ \E j \in JobIds : RunnerDone(j)
    \/ \E j \in JobIds : ProcWrite(j)
    \/ \E j \in JobIds : ProcFinish(j)
    \/ \E j \in JobIds : ProcFail(j)
    \/ \E k \in Keys : TouchHLS(k)
    \/ Tick
    \/ ReaperScan
    \/ \E k \in Keys : ReaperStop(k)
    \/ StopKill
    \/ StopRemove
    \/ ReaperSleep

Spec == Init /\ [][Next]_vars

\* ------------------------------------------------- handleHLS (server.go)
\* File names are sequences of characters.
Contains(s, sub) ==
    \E i \in 1..(Len(s) - Len(sub) + 1) : SubSeq(s, i, i + Len(sub) - 1) = sub

HasSuffix(s, suf) ==
    /\ Len(s) >= Len(suf)
    /\ SubSeq(s, Len(s) - Len(suf) + 1, Len(s)) = suf

Digits == <<"0", "1", "2", "3", "4", "5", "6", "7", "8", "9">>

\* for i := 0; i < 150; i++ and for i := 0; i < 300; i++
playlistPolls == 150
segmentPolls == 300

\* "stream.m3u8", the playlist ffmpeg is told to write.
streamName == <<"s", "t", "r", "e", "a", "m", ".", "m", "3", "u", "8">>

\* "seg%05d.ts", the n-th segment.
segName(n) ==
    <<"s", "e", "g">> \o [i \in 1..5 |-> Digits[((n \div (10 ^ (5 - i))) % 10) + 1]]
        \o <<".", "t", "s">>

\* The file names requests come with: the playlist, the first segment,
\* "../a.ts", "a/b.ts", "a..ts" and "a.txt".
FileNames ==
    { streamName,
      segName(0),
      <<".", ".", "/", "a", ".", "t", "s">>,
      <<"a", "/", "b", ".", "t", "s">>,
      <<"a", ".", ".", "t", "s">>,
      <<"a", ".", "t", "x", "t">> }

\* A check that looks for the path separator only.
RejectedSlashOnly(name) == Contains(name, <<"/">>)

\* strings.Contains(fileName, "/") || strings.Contains(fileName, "..")
Rejected(name) == Contains(name, <<"/">>) \/ Contains(name, <<".", ".">>)

isPlaylist(name) == HasSuffix(name, <<".", "m", "3", "u", "8">>)

isSegment(name) == ~isPlaylist(name) /\ HasSuffix(name, <<".", "t", "s">>)

\* The file name exists in directory d: the playlist once ffmpeg wrote it, the
\* segments written so far.
FileExists(d, name) ==
    /\ fs[d].exists
    /\ \/ name = streamName /\ fs[d].playlist # "none"
       \/ \E n \in 0..(fs[d].segs - 1) : name = segName(n)

\* One poll.  os.ReadFile succeeds and the data contains ".ts" (the playlist
\* ffmpeg writes lists at least one segment), or os.Stat succeeds.
PollReady(d, name) == FileExists(d, name)

\* Loop bounds taken the wrong way round.
pollLimitSwapped(name) == IF isPlaylist(name) THEN segmentPolls ELSE playlistPolls

pollLimit(name) == IF isPlaylist(name) THEN playlistPolls ELSE segmentPolls

\* Where the request goes once its directory is known.
AfterResolve(name) ==
    IF isPlaylist(name) \/ isSegment(name) THEN "poll" ELSE "serve"

\* The handler returns: its locals are gone, the response stays.
Response(code) ==
    [NoRequest EXCEPT !.pc = "done", !.key = hreq.key, !.name = hreq.name,
                      !.status = code, !.at = hreq.at]

\* The request arrives; a name with "/" or ".." is answered 404 at once, else
\* TouchHLS(key).
HlsRequest(k, name) ==
    /\ hreq.pc \in {"idle", "done"}
    /\ IF Rejected(name)
       THEN /\ hreq' = [NoRequest EXCEPT !.pc = "done", !.key = k,
                                          !.name = name, !.status = 404,
                                          !.at = hreq.at]
            /\ UNCHANGED jobs
       ELSE /\ Unlocked
            /\ jobs' = IF Touched(k) # 0
                       THEN [jobs EXCEPT ![Touched(k)].lastAccess = now]
                       ELSE jobs
            /\ hreq' = [NoRequest EXCEPT !.pc = "lookup", !.key = k,
                                          !.name = name, !.at = now]
    /\ UNCHANGED <<now, mtime, hlsJobsMu, hlsJobs, evicted, rpc, proc, fs, cpc,
                   ckey, cret, reaper, idleKeys, spc, sjob, main, play>>

\* Lock; job, ok := hlsJobs[key]; unlock; if ok { hlsDir = job.Dir }
HlsLookup ==
    /\ hreq.pc = "lookup"
    /\ Unlocked
    /\ IF hlsJobs[hreq.key] # 0
       THEN hreq' = [hreq EXCEPT !.job = hlsJobs[hreq.key],
                                 !.dir = jobs[hlsJobs[hreq.key]].Dir,
                                 !.pc = AfterResolve(hreq.name)]
       ELSE hreq' = [hreq EXCEPT !.pc = "cache"]
    /\ UNCHANGED <<now, mtime, hlsJobsMu, hlsJobs, jobs, evicted, rpc, proc,
                   fs, cpc, ckey, cret, reaper, idleKeys, spc, sjob, main, play>>

\* else: isCacheComplete(cacheDir), or 404.
HlsCache ==
    /\ hreq.pc = "cache"
    /\ IF isCacheComplete(hreq.key)
       THEN hreq' = [hreq EXCEPT !.dir = hreq.key,
                                 !.pc = AfterResolve(hreq.name)]
       ELSE hreq' = Response(404)
    /\ UNCHANGED <<now, mtime, hlsJobsMu, hlsJobs, jobs, evicted, rpc, proc,
                   fs, cpc, ckey, cret, reaper, idleKeys, spc, sjob, main, play>>

\* One turn of the polling loop: ready and break, or sleep 100 ms and count;
\* when the count reaches the bound the loop is left and the answer is 503.
\* polls is the loop variable i, which does not outlive the loop.
HlsPoll ==
    /\ hreq.pc = "poll"
    /\ IF PollReady(hreq.dir, hreq.name)
       THEN hreq' = [hreq EXCEPT !.pc = "serve", !.polls = 0]
       ELSE IF hreq.polls + 1 < pollLimit(hreq.name)
       THEN hreq' = [hreq EXCEPT !.polls = @ + 1]
       ELSE hreq' = Response(503)
    /\ UNCHANGED <<now, mtime, hlsJobsMu, hlsJobs, jobs, evicted, rpc, proc,
                   fs, cpc, ckey, cret, reaper, idleKeys, spc, sjob, main, play>>

\* http.ServeFile(w, r, filePath): the file, or 404 when it is not there.
HlsServe ==
    /\ hreq.pc = "serve"
    /\ hreq' = Response(IF FileExists(hreq.dir, hreq.name) THEN 200 ELSE 404)
    /\ UNCHANGED <<now, mtime, hlsJobsMu, hlsJobs, jobs, evicted, rpc, proc,
                   fs, cpc, ckey, cret, reaper, idleKeys, spc, sjob, main, play>>

\* Artifact requests, one at a time, next to play requests, runners and
\* transcoders; no job is idle long enough to be reaped.
NextServe ==
    \/ \E k \in Keys, name \in FileNames : HlsRequest(k, name)
    \/ HlsLookup
    \/ HlsCache
    \/ HlsPoll
    \/ HlsServe
    \/ \E c \in Callers, p \in Paths : GosKey(c, p)
    \/ \E c \in Callers : GosAdmit(c)
    \/ \E c \in Callers : GosLaunch(c)
    \/ \E j \in JobIds : RunnerStart(j)
    \/ \E j \in JobIds : RunnerExit(j)
    \/ \E j \in JobIds : RunnerDone(j)
    \/ \E j \in JobIds : ProcWrite(j)
    \/ \E j \in JobIds : ProcFinish(j)
    \/ \E j \in JobIds : ProcFail(j)

SpecServe == Init /\ [][NextServe]_vars

\* ------------------------------------------- a player that keeps asking
\* One player: play requests one at a time, requests for the playlist under
\* the key of the file, the runner up to its clean-up and a transcoder that
\* fails, while time passes and the reaper sweeps.
NextKeepAlive ==
    \/ \E p \in Paths : HlsRequest(hlsJobKey(p), streamName)
    \/ HlsLookup
    \/ HlsCache
    \/ HlsPoll
    \/ HlsServe
    \/ \E p \in Paths : GosKey(1, p)
    \/ GosAdmit(1)
    \/ GosLaunch(1)
    \/ \E j \in JobIds : RunnerStart(j)
    \/ \E j \in JobIds : RunnerExit(j)
    \/ \E j \in JobIds : ProcFail(j)
    \/ Tick
    \/ ReaperScan
    \/ \E k \in Keys : ReaperStop(k)
    \/ StopKill
    \/ StopRemove
    \/ ReaperSleep

SpecKeepAlive == Init /\ [][NextKeepAlive]_vars

\* ------------------------------------------------- who holds hlsJobsMu
\* MkdirAll whose error return forgets hlsJobsMu.Unlock().
MkdirKeepsLock(c) ==
    /\ cpc[c] = "mkdir"
    /\ \/ /\ cpc' = [cpc EXCEPT ![c] = "idle"]
          /\ cret' = [cret EXCEPT ![c] = -1]
          /\ UNCHANGED <<fs, hlsJobsMu>>
       \/ /\ fs' = MkdirAll(ckey[c])
          /\ cpc' = [cpc EXCEPT ![c] = "probe"]
          /\ UNCHANGED <<hlsJobsMu, cret>>
    /\ UNCHANGED <<now, mtime, hlsJobs, jobs, evicted, rpc, proc, ckey,
                   reaper, idleKeys, spc, sjob>>
    /\ UNCHANGED aux

\* The launch path of getOrStartHLS in two steps, to tell what the caller
\* waits for while it holds the mutex.  MkdirAll: on error unlock and return
\* the error, else start ffprobe (cmd.Output() in probeVideoCodec).
GosMkdir(c) ==
    /\ cpc[c] = "mkdir"
    /\ \/ /\ hlsJobsMu' = 0
          /\ cpc' = [cpc EXCEPT ![c] = "idle"]
          /\ cret' = [cret EXCEPT ![c] = -1]
          /\ UNCHANGED fs
       \/ /\ fs' = MkdirAll(ckey[c])
          /\ cpc' = [cpc EXCEPT ![c] = "probe"]
          /\ UNCHANGED <<hlsJobsMu, cret>>
    /\ UNCHANGED <<now, mtime, hlsJobs, jobs, evicted, rpc, proc, ckey,
                   reaper, idleKeys, spc, sjob>>
    /\ UNCHANGED aux

\* ffprobe has exited and cmd.Output() returns: build the command, insert the
\* job, unlock, start the runner goroutine, return the job.
GosInsert(c) ==
    LET k == ckey[c]
        j == nJobs + 1
    IN  /\ cpc[c] = "probe"
        /\ jobs' = Append(jobs, HLSJob(k, TRUE, FALSE, FALSE))
        /\ hlsJobs' = [hlsJobs EXCEPT ![k] = j]
        /\ hlsJobsMu' = 0
        /\ rpc' = [rpc EXCEPT ![j] = "spawned"]
        /\ cpc' = [cpc EXCEPT ![c] = "idle"]
        /\ cret' = [cret EXCEPT ![c] = j]
        /\ UNCHANGED <<now, mtime, evicted, proc, fs, ckey, reaper, idleKeys,
                       spc, sjob>>
        /\ UNCHANGED aux

\* "a.txt": a file name that is served without polling.
otherName == <<"a", ".", "t", "x", "t">>

\* The requests of a player that arrive before the reaper's first period has
\* passed.
FirstRequest(k) == now = StartTime /\ HlsRequest(k, otherName)

\* Two play requests contend for the mutex.
Contenders == Callers \cap {1, 2}

\* Play requests, the reaper with its stops, and requests that are served
\* without polling; the transcoders have not started yet.
NextLock ==
    \/ \E c \in Contenders, p \in Paths : GosKey(c, p)
    \/ \E c \in Contenders : GosAdmit(c)
    \/ \E c \in Contenders : GosMkdir(c)
    \/ \E c \in Contenders : GosInsert(c)
    \/ \E p \in Paths : FirstRequest(hlsJobKey(p))
    \/ HlsLookup
    \/ HlsCache
    \/ HlsServe
    \/ Tick
    \/ ReaperScan
    \/ \E k \in Keys : ReaperStop(k)
    \/ StopKill
    \/ ReaperSleep

\* sync.Mutex hands the mutex to a goroutine that keeps waiting for it
\* (starvation mode), and a goroutine that holds it keeps running: MkdirAll
\* returns, and so does cmd.Output(), provided that ffprobe exits.
LockFairness ==
    /\ \A c \in Contenders : SF_vars(GosAdmit(c))
    /\ \A c \in Contenders : WF_vars(GosMkdir(c))
    /\ \A c \in Contenders : WF_vars(GosInsert(c))
    /\ SF_vars(HlsLookup)
    /\ SF_vars(ReaperScan)
    /\ SF_vars(\E k \in Keys : ReaperStop(k))
    /\ WF_vars(StopKill)

SpecLock == Init /\ [][NextLock]_vars /\ LockFairness

\* --------------------------------------------------------- 64-bit values
\* An int64 or uint64 is four 16-bit limbs, the most significant first; the
\* same bits are read unsigned or, as int64, in two's complement.
Limb == 2 ^ 16

\* The value n, 0 <= n < 2^31.
Word64(n) == <<0, 0, n \div Limb, n % Limb>>

\* a + b, wrapping around at 2^64.
Add64(a, b) ==
    LET s4 == a[4] + b[4]
        s3 == a[3] + b[3] + (s4 \div Limb)
        s2 == a[2] + b[2] + (s3 \div Limb)
        s1 == a[1] + b[1] + (s2 \div Limb)
    IN  <<s1 % Limb, s2 % Limb, s3 % Limb, s4 % Limb>>

\* a - b, wrapping around.
Sub64(a, b) ==
    Add64(a, Add64(<<Limb - 1 - b[1], Limb - 1 - b[2], Limb - 1 - b[3],
                     Limb - 1 - b[4]>>, Word64(1)))

\* The sign bit of an int64.
Negative(a) == a[1] >= Limb \div 2

\* a < b as unsigned values.
Below(a, b) ==
    \E i \in 1..4 : a[i] < b[i] /\ \A j \in 1..(i - 1) : a[j] = b[j]

\* A comparison that reads both int64 values as unsigned.
Less64Unsigned(a, b) == Below(a, b)

\* a < b as int64.
Less64(a, b) ==
    IF Negative(a) # Negative(b) THEN Negative(a) ELSE Below(a, b)

\* ------------------------------------------------------------ video files
MaxBoxes == 2

largeMp4Threshold == 500 * 1024 * 1024

BoxTypes == {"moov", "mdat", "free"}

\* Values of the 4-byte size field: 0 (to the end of the file), 1 (a 64-bit
\* size follows), 4, 8, 16 and 2^32 - 1.
SizeFields ==
    {Word64(0), Word64(1), Word64(4), Word64(8), Word64(16),
     <<0, 0, Limb - 1, Limb - 1>>}

\* Values of the 8-byte size: 0, 7, 16, 2^63 - 1, 2^63 and 2^64 - 1.
LargeSizes ==
    {Word64(0), Word64(7), Word64(16),
     <<Limb \div 2 - 1, Limb - 1, Limb - 1, Limb - 1>>,
     <<Limb \div 2, 0, 0, 0>>,
     <<Limb - 1, Limb - 1, Limb - 1, Limb - 1>>}

\* A box header: the size field, the type, and the 8 bytes that follow the
\* type when the size field is 1.
BoxHeaders ==
    {[size |-> sz, typ |-> t, large |-> Word64(0)] :
        sz \in SizeFields \ {Word64(1)}, t \in BoxTypes}
    \cup {[size |-> Word64(1), typ |-> t, large |-> l] :
             t \in BoxTypes, l \in LargeSizes}

\* Bytes that belong to no box read as zero.
ZeroHeader == [size |-> Word64(0), typ |-> "zero", large |-> Word64(0)]

BoxSeqs(B) == UNION {[1..m -> B] : m \in 0..MaxBoxes}

\* File lengths for the box walk.
FileLengths == {0, 7, 8, 15, 16, 24, 32}

headerLen(b) == IF b.size = Word64(1) THEN 16 ELSE 8

\* Boxes that reach this far reach beyond every file of the model.
Beyond == 2 ^ 30

\* The value of an int64 as far as the layout needs it: -1 when negative,
\* Beyond when 2^30 or more.
Clip(a) ==
    IF Negative(a) THEN -1
    ELSE IF a[1] = 0 /\ a[2] = 0 /\ a[3] < Limb \div 4 THEN a[3] * Limb + a[4]
    ELSE Beyond

\* The size the header of box b declares, b starting at byte s of a file of
\* n bytes.
DeclaredSize(b, s, n) ==
    LET v == IF b.size = Word64(1) THEN b.large ELSE b.size
    IN  IF v = Word64(0) THEN n - s ELSE Clip(v)

\* The file lays its boxes end to end: where box i starts, -1 when the box
\* before it declares less than its own header or the start is out of reach.
RECURSIVE BoxStart(_, _, _)
BoxStart(boxes, n, i) ==
    IF i = 1 THEN 0
    ELSE LET s == BoxStart(boxes, n, i - 1)
             e == IF s < 0 THEN -1 ELSE DeclaredSize(boxes[i - 1], s, n)
         IN  IF s < 0 \/ s >= Beyond \/ e < headerLen(boxes[i - 1])
             THEN -1
             ELSE s + e

\* The 8 or 16 header bytes at offset off.
HeaderAt(boxes, n, off) ==
    LET at == {i \in 1..Len(boxes) :
                  /\ BoxStart(boxes, n, i) >= 0
                  /\ Word64(BoxStart(boxes, n, i)) = off}
    IN  IF at = {} THEN ZeroHeader ELSE boxes[CHOOSE i \in at : TRUE]

\* f.ReadAt(buf, off) fills all len bytes of buf.
ReadOk(n, off, len) ==
    /\ ~Negative(off)
    /\ n >= len
    /\ ~Below(Word64(n - len), off)

\* -------------------------------------------------------- hasMoovAtFront
\* A switch without the mdat case.
boxVerdictMoovOnly(typ) == IF typ = "moov" THEN "true" ELSE "next"

\* switch boxType { case "moov": return true; case "mdat": return false }
boxVerdict(typ) ==
    CASE typ = "moov" -> "true"
      [] typ = "mdat" -> "false"
      [] OTHER -> "next"

\* One turn of the loop at offset off: "true" for break (return true after
\* the loop) and for case moov, "false" for case mdat, else "next" with the
\* offset of the next turn.
Iteration(boxes, n, off) ==
    IF ~ReadOk(n, off, 8)
    THEN [kind |-> "true", offset |-> off]
    ELSE LET h == HeaderAt(boxes, n, off)
         IN  IF h.size = Word64(1) /\ ~ReadOk(n, Add64(off, Word64(8)), 8)
             THEN [kind |-> "true", offset |-> off]
             ELSE LET size1 == IF h.size = Word64(1) THEN h.large ELSE h.size
                      size == IF size1 = Word64(0)
                              THEN Sub64(Word64(n), off)
                              ELSE size1
                  IN  IF Less64(size, Word64(8))
                      THEN [kind |-> "true", offset |-> off]
                      ELSE [kind |-> boxVerdict(h.typ),
                            offset |-> Add64(off, size)]

\* hasMoovAtFront returns b to its caller; needsStreamingMp4 returns !b.
Return(b) ==
    [play EXCEPT !.pc = "done", !.moov = b,
                 !.useHLS = IF play.ret = "needsStreamingMp4" THEN ~b ELSE @]

\* os.Open: on error return false.
InspectOpen ==
    /\ play.pc = "open"
    /\ IF play.open
       THEN play' = [play EXCEPT !.pc = "walk", !.offset = Word64(0)]
       ELSE play' = Return(FALSE)
    /\ UNCHANGED <<now, mtime, hlsJobsMu, hlsJobs, jobs, evicted, rpc, proc,
                   fs, cpc, ckey, cret, reaper, idleKeys, spc, sjob, main,
                   hreq>>

\* One turn of the loop.
InspectBox ==
    /\ play.pc = "walk"
    /\ LET it == Iteration(play.boxes, play.size, play.offset)
       IN  IF it.kind = "next"
           THEN play' = [play EXCEPT !.offset = it.offset]
           ELSE play' = Return(it.kind = "true")
    /\ UNCHANGED <<now, mtime, hlsJobsMu, hlsJobs, jobs, evicted, rpc, proc,
                   fs, cpc, ckey, cret, reaper, idleKeys, spc, sjob, main,
                   hreq>>

\* hasMoovAtFront is called on a file that opens, of any box sequence over
\* the headers H and of any length in L.
InspectInputs(H, L) ==
    {[NoPlay EXCEPT !.pc = "open", !.ret = "caller", !.size = n, !.boxes = bs] :
        n \in L, bs \in BoxSeqs(H)}

InitInspect ==
    /\ InitRegistry
    /\ fs = [k \in Keys |-> NoDir]
    /\ main = "serve"
    /\ hreq = NoRequest
    /\ play \in InspectInputs(BoxHeaders, FileLengths)

NextInspect == InspectOpen \/ InspectBox

SpecInspect == InitInspect /\ [][NextInspect]_vars

\* Headers for the walk: free boxes with size fields 0, 4 and 8 and with
\* 64-bit sizes 0, 2^63 - 1 and 2^64 - 8, which is -8 as int64 and, added to an
\* offset, leads back to a box already visited; and an mdat box of 8 bytes.
WalkHeaders ==
    {[size |-> sz, typ |-> "free", large |-> Word64(0)] :
        sz \in {Word64(0), Word64(4), Word64(8)}}
    \cup {[size |-> Word64(1), typ |-> "free", large |-> l] :
             l \in {Word64(0),
                    <<Limb \div 2 - 1, Limb - 1, Limb - 1, Limb - 1>>,
                    <<Limb - 1, Limb - 1, Limb - 1, Limb - 8>>}}
    \cup {[size |-> Word64(8), typ |-> "mdat", large |-> Word64(0)]}

\* File lengths for the walk: one header, and room for a 16-byte header
\* behind a box of 8 or 16 bytes.
WalkLengths == {8, 24}

\* hasMoovAtFront is called on a file that opens.
WalkCall ==
    /\ play.pc = "idle"
    /\ play' \in InspectInputs(WalkHeaders, WalkLengths)
    /\ UNCHANGED <<now, mtime, hlsJobsMu, hlsJobs, jobs, evicted, rpc, proc,
                   fs, cpc, ckey, cret, reaper, idleKeys, spc, sjob, main,
                   hreq>>

InitWalk ==
    /\ InitRegistry
    /\ fs = [k \in Keys |-> NoDir]
    /\ main = "serve"
    /\ hreq = NoRequest
    /\ play = NoPlay

NextWalk == WalkCall \/ InspectOpen \/ InspectBox

\* The goroutine that called hasMoovAtFront keeps running: a step of the
\* function that can be taken is taken.
SpecWalk == InitWalk /\ [][NextWalk]_vars /\ WF_vars(NextInspect)

\* ------------------------------------- needsTranscode, needsStreamingMp4
\* strings.ToLower, on the letters the file names of the model are made of.
ToLower(str) ==
    [i \in 1..Len(str) |->
        CASE str[i] = "M" -> "m"
          [] str[i] = "P" -> "p"
          [] str[i] = "V" -> "v"
          [] str[i] = "K" -> "k"
          [] OTHER -> str[i]]

\* filepath.Ext: from the last dot of the last path element on, or empty.
Ext(path) ==
    LET dots == {i \in 1..Len(path) :
                    /\ path[i] = "."
                    /\ \A j \in i..Len(path) : path[j] # "/"}
    IN  IF dots = {} THEN <<>>
        ELSE SubSeq(path, CHOOSE i \in dots : \A j \in dots : j <= i, Len(path))

\* ext != ".mp4" && ext != ".m4v"
needsTranscode(path) ==
    /\ ToLower(Ext(path)) # <<".", "m", "p", "4">>
    /\ ToLower(Ext(path)) # <<".", "m", "4", "v">>

\* A size test that lets a file of exactly the threshold pass as small.
notAboveThreshold(size) == size <= largeMp4Threshold

\* info.Size() < largeMp4Threshold
belowThreshold(size) == size < largeMp4Threshold

\* "a.mp4", "a.MP4", "a.m4v", "a.M4v": the names with an MP4 extension.
Mp4Names ==
    { <<"a", ".", "m", "p", "4">>,
      <<"a", ".", "M", "P", "4">>,
      <<"a", ".", "m", "4", "v">>,
      <<"a", ".", "M", "4", "v">> }

\* "a.mkv", "a.mp4.mkv", "mp4", "a.mp4/b": the names without one.
OtherNames ==
    { <<"a", ".", "m", "k", "v">>,
      <<"a", ".", "m", "p", "4", ".", "m", "k", "v">>,
      <<"m", "p", "4">>,
      <<"a", ".", "m", "p", "4", "/", "b">> }

\* File sizes on both sides of the threshold: 499 MiB, 500 MiB - 1, 500 MiB,
\* 500 MiB + 1.
PlaySizes ==
    {499 * 1024 * 1024, largeMp4Threshold - 1, largeMp4Threshold,
     largeMp4Threshold + 1}

\* Boxes of 16 bytes, one of each type.
PlainBoxes ==
    {[size |-> Word64(16), typ |-> t, large |-> Word64(0)] : t \in BoxTypes}

\* The files handlePlay is asked for: one that os.Stat does not find, or one
\* of a name, a size and a box sequence, that os.Open may fail to open.
PlayInputs ==
    {[NoPlay EXCEPT !.pc = "ext", !.ret = "handlePlay", !.name = nm,
                    !.stat = FALSE, !.open = FALSE] :
        nm \in Mp4Names \cup OtherNames}
    \cup {[NoPlay EXCEPT !.pc = "ext", !.ret = "handlePlay", !.name = nm,
                         !.size = n, !.open = o, !.boxes = bs] :
             nm \in Mp4Names \cup OtherNames, n \in PlaySizes, o \in BOOLEAN,
             bs \in BoxSeqs(PlainBoxes)}

\* useHLS := needsTranscode(fullPath) || ...
PlayExt ==
    /\ play.pc = "ext"
    /\ IF needsTranscode(play.name)
       THEN play' = [play EXCEPT !.pc = "done", !.useHLS = TRUE]
       ELSE play' = [play EXCEPT !.pc = "stat"]
    /\ UNCHANGED <<now, mtime, hlsJobsMu, hlsJobs, jobs, evicted, rpc, proc,
                   fs, cpc, ckey, cret, reaper, idleKeys, spc, sjob, main,
                   hreq>>

\* ... || needsStreamingMp4(fullPath): false on a stat error or a size below
\* the threshold, else !hasMoovAtFront(filePath).
PlayStat ==
    /\ play.pc = "stat"
    /\ IF ~play.stat \/ belowThreshold(play.size)
       THEN play' = [play EXCEPT !.pc = "done", !.useHLS = FALSE]
       ELSE play' = [play EXCEPT !.pc = "open", !.ret = "needsStreamingMp4"]
    /\ UNCHANGED <<now, mtime, hlsJobsMu, hlsJobs, jobs, evicted, rpc, proc,
                   fs, cpc, ckey, cret, reaper, idleKeys, spc, sjob, main,
                   hreq>>

InitPlay ==
    /\ InitRegistry
    /\ fs = [k \in Keys |-> NoDir]
    /\ main = "serve"
    /\ hreq = NoRequest
    /\ play \in PlayInputs

NextPlay == PlayExt \/ PlayStat \/ InspectOpen \/ InspectBox

SpecPlay == InitPlay /\ [][NextPlay]_vars

\* ------------------------------- probeVideoCodec, the argument vector
\* strings.Index: the position of the first occurrence of sub in s, from 0,
\* or -1.
Index(s, sub) ==
    LET at == {i \in 1..(Len(s) - Len(sub) + 1) :
                  SubSeq(s, i, i + Len(sub) - 1) = sub}
    IN  IF at = {} THEN -1 ELSE (CHOOSE i \in at : \A j \in at : i <= j) - 1

\* s[n:]
From(s, n) == SubSeq(s, n + 1, Len(s))

\* What ffprobe -print_format flat prints for a first video stream of codec
\* c: streams.stream.0.codec_name="c" and a newline.
ProbeLine(c) ==
    <<"s", "t", "r", "e", "a", "m", "s", ".", "s", "t", "r", "e", "a", "m",
      ".", "0", ".", "c", "o", "d", "e", "c", "_", "n", "a", "m", "e">>
        \o <<"=", "\"">> \o c \o <<"\"", "\n">>

\* Codec names: h264, avc1, avc, hevc, H264, avc2, vp9 and the empty name.
CodecNames ==
    { <<"h", "2", "6", "4">>, <<"a", "v", "c", "1">>, <<"a", "v", "c">>,
      <<"h", "e", "v", "c">>, <<"H", "2", "6", "4">>, <<"a", "v", "c", "2">>,
      <<"v", "p", "9">>, <<>> }

\* What cmd.Output() gives: an error, or the line of a codec, or no line (the
\* file has no video stream), or a line cut off before its closing quote.
ProbeResults ==
    {[err |-> TRUE, out |-> <<>>], [err |-> FALSE, out |-> <<>>],
     [err |-> FALSE,
      out |-> SubSeq(ProbeLine(<<"h", "2", "6", "4">>), 1,
                     Len(ProbeLine(<<"h", "2", "6", "4">>)) - 2)]}
    \cup {[err |-> FALSE, out |-> ProbeLine(c)] : c \in CodecNames}

\* The text between the first =" and the next ", or "".
probeVideoCodec(r) ==
    IF r.err THEN <<>>
    ELSE LET idx == Index(r.out, <<"=", "\"">>)
             rest == From(r.out, idx + 2)
             end == Index(rest, <<"\"">>)
         IN  IF idx >= 0 /\ end >= 0 THEN SubSeq(rest, 1, end) ELSE <<>>

\* A test that looks at the first letter of the codec name only.
canBrowserPlayByInitial(codec) == codec # <<>> /\ codec[1] \in {"h", "a"}

\* case "h264", "avc1", "avc": return true
canBrowserPlayCodec(codec) ==
    codec \in {<<"h", "2", "6", "4">>, <<"a", "v", "c", "1">>, <<"a", "v", "c">>}

\* The arguments are strings; filePath, segPattern and m3u8Path stand for the
\* three paths among them.
commonArgs ==
    <<"-map", "0:v:0", "-map", "0:a:0?", "-c:a", "aac", "-ac", "2",
      "-b:a", "128k", "-f", "hls", "-hls_time", "6", "-hls_list_size", "0",
      "-hls_segment_filename", "segPattern",
      "-hls_flags", "independent_segments">>

videoArgs(goos) ==
    IF goos = "darwin"
    THEN <<"-c:v", "h264_videotoolbox", "-b:v", "4M">>
    ELSE <<"-c:v", "libx264", "-preset", "fast", "-b:v", "4M">>

\* The argument vector of the ffmpeg command.
hlsArgs(codec, goos) ==
    (IF canBrowserPlayCodec(codec)
     THEN <<"-loglevel", "error", "-i", "filePath", "-c:v", "copy",
            "-bsf:v", "h264_mp4toannexb">> \o commonArgs
     ELSE <<"-loglevel", "error", "-i", "filePath">> \o videoArgs(goos)
              \o <<"-force_key_frames", "expr:gte(t,n_forced*2)">>
              \o commonArgs)
    \o <<"m3u8Path">>

\* if useHLS { getOrStartHLS(fullPath) }: the call finds no registry entry and
\* no complete cache, creates the directory and comes to the probe.
PlayLaunch ==
    /\ play.pc = "done"
    /\ play.ret # "caller"
    /\ play.useHLS = TRUE
    /\ play' = [play EXCEPT !.pc = "probe"]
    /\ UNCHANGED <<now, mtime, hlsJobsMu, hlsJobs, jobs, evicted, rpc, proc,
                   fs, cpc, ckey, cret, reaper, idleKeys, spc, sjob, main,
                   hreq>>

\* codec := probeVideoCodec(filePath)
GosProbe ==
    /\ play.pc = "probe"
    /\ play' = [play EXCEPT !.pc = "args", !.codec = probeVideoCodec(play.probe)]
    /\ UNCHANGED <<now, mtime, hlsJobsMu, hlsJobs, jobs, evicted, rpc, proc,
                   fs, cpc, ckey, cret, reaper, idleKeys, spc, sjob, main,
                   hreq>>

\* cmd := exec.Command(ffmpegPath(), args...)
GosArgs ==
    /\ play.pc = "args"
    /\ play' = [play EXCEPT !.pc = "launched",
                            !.args = hlsArgs(play.codec, play.goos)]
    /\ UNCHANGED <<now, mtime, hlsJobsMu, hlsJobs, jobs, evicted, rpc, proc,
                   fs, cpc, ckey, cret, reaper, idleKeys, spc, sjob, main,
                   hreq>>

\* "a.mp4", "a.M4v" and "a.mkv".
ModeNames ==
    { <<"a", ".", "m", "p", "4">>, <<"a", ".", "M", "4", "v">>,
      <<"a", ".", "m", "k", "v">> }

\* The files handlePlay is asked for: found by os.Stat or not, below the
\* threshold or not, of every box sequence, on either platform and with every
\* answer of ffprobe.
ModeInputs ==
    {[NoPlay EXCEPT !.pc = "ext", !.ret = "handlePlay", !.name = nm,
                    !.stat = st, !.size = n, !.open = st, !.boxes = bs,
                    !.probe = r, !.goos = g] :
        nm \in ModeNames, st \in BOOLEAN,
        n \in {largeMp4Threshold - 1, largeMp4Threshold},
        bs \in BoxSeqs(PlainBoxes), r \in ProbeResults,
        g \in {"darwin", "linux"}}

InitMode ==
    /\ InitRegistry
    /\ fs = [k \in Keys |-> NoDir]
    /\ main = "serve"
    /\ hreq = NoRequest
    /\ play \in ModeInputs

NextMode ==
    \/ PlayExt
    \/ PlayStat
    \/ InspectOpen
    \/ InspectBox
    \/ PlayLaunch
    \/ GosProbe
    \/ GosArgs

SpecMode == InitMode /\ [][NextMode]_vars

\* ------------------------------------------------------- --clear-cache
\* A wipe that spares the finished artifacts.
CacheWithoutPartials ==
    [k \in Keys |-> IF fs[k].playlist = "complete" THEN fs[k] ELSE NoDir]

\* os.RemoveAll(hlsCacheDir): the cache root goes with everything below it.
\* The root itself has no field: MkdirAll creates missing parents and a read
\* below a missing root fails as it does below a missing directory.
EmptyCache == [k \in Keys |-> NoDir]

\* main with --clear-cache: ClearHLSCache(), then return.
ClearHLSCache ==
    /\ main = "clear"
    /\ fs' = EmptyCache
    /\ main' = "exit"
    /\ UNCHANGED <<now, mtime, hlsJobsMu, hlsJobs, jobs, evicted, rpc, proc,
                   cpc, ckey, cret, reaper, idleKeys, spc, sjob, hreq,
                   play>>

\* The program is started again without the flag: InitHLSCache, the reaper,
\* the HTTP server.  The registry of the new process is empty.
StartServer ==
    /\ main = "exit"
    /\ main' = "serve"
    /\ UNCHANGED <<now, mtime, hlsJobsMu, hlsJobs, jobs, evicted, rpc, proc,
                   fs, cpc, ckey, cret, reaper, idleKeys, spc, sjob, hreq,
                   play>>

\* The program is started with --clear-cache over a cache that holds the
\* artifact, finished or not, of an earlier run.
InitWipe ==
    /\ InitRegistry
    /\ \E k \in Keys : fs[k].exists
    /\ main = "clear"
    /\ hreq = NoRequest
    /\ play = NoPlay

\* The wipe, the next start, and play requests once the server listens.
NextWipe ==
    \/ ClearHLSCache
    \/ StartServer
    \/ \E c \in Callers, p \in Paths : main = "serve" /\ GosKey(c, p)
    \/ \E c \in Callers : GosAdmit(c)
    \/ \E c \in Callers : GosLaunch(c)
    \/ \E j \in JobIds : RunnerStart(j)
    \/ \E j \in JobIds : RunnerExit(j)
    \/ \E j \in JobIds : RunnerDone(j)
    \/ \E j \in JobIds : ProcWrite(j)
    \/ \E j \in JobIds : ProcFinish(j)
    \/ \E j \in JobIds : ProcFail(j)

SpecWipe == InitWipe /\ [][NextWipe]_vars

\* ------------------------------------------- the source file is modified
\* Play requests while the source file is overwritten between them.  A
\* transcode runs from its start to its end in whole steps (its exit, and the
\* clean-up or Cached = true of its runner) and no job is idle long enough to
\* be reaped: the directory and the registry entry of an older key are met
\* empty, left over, complete, removed, and with a spawned, running, finished
\* or failed job.
NextModify ==
    \/ \E p \in Paths : ModifyFile(p)
    \/ \E c \in Callers, p \in Paths : GosKey(c, p)
    \/ \E c \in Callers : GosAdmit(c)
    \/ \E c \in Callers : GosLaunch(c)
    \/ \E j \in JobIds : RunnerStart(j)
    \/ \E j \in JobIds : RunnerExit(j)
    \/ \E j \in JobIds : ProcFinish(j)
    \/ \E j \in JobIds : ProcFail(j)

SpecModify == Init /\ [][NextModify]_vars

\* ================================================================ claims
JobsOf(k) == {j \in Allocated : jobs[j].key = k}

Complete(k) == fs[k].exists /\ fs[k].playlist = "complete"

Failed(j) == proc[j] \in {"err", "nostart"}

\* The runner goroutine of j is past its clean-up.
Returning(j) == rpc[j] \in {"close", "end"}

\* Caller c takes its admission step while key k has no registry entry.
AdmitsFresh(c, k) ==
    /\ cpc[c] = "lock"
    /\ cpc'[c] # "lock"
    /\ ckey[c] = k
    /\ hlsJobs[k] = 0

\* Caller c takes its admission step while the failed job j is resident.
RetriesFailed(c, j) ==
    /\ cpc[c] = "lock"
    /\ cpc'[c] # "lock"
    /\ hlsJobs[ckey[c]] = j
    /\ proc[j] = "err"

\* C1: for every key, at most one job has a live transcoder process, counting
\* the jobs StopHLS has deleted from the registry and not yet killed.
C1_AtMostOneLiveProcess ==
    \A k \in Keys : Cardinality({j \in JobsOf(k) : Live(j)}) <= 1

\* C2: callers of getOrStartHLS for the same key all receive the same job and
\* one process is spawned for them: of the jobs ever created for a key, all but
\* one have been deleted by StopHLS, the remaining one is the registry entry,
\* and two returned handles for the key differ only if StopHLS deleted one.
C2_SingleAdmission ==
    /\ \A j \in Allocated : j \notin evicted => hlsJobs[jobs[j].key] = j
    /\ \A k \in Keys : Cardinality(JobsOf(k) \ evicted) <= 1
    /\ \A c, d \in Callers :
          (/\ cret[c] > 0
           /\ cret[d] > 0
           /\ ckey[c] = ckey[d]
           /\ cret[c] \notin evicted
           /\ cret[d] \notin evicted) => cret[c] = cret[d]
    /\ \A j \in Allocated : proc[j] # "none" => jobs[j].Cmd

\* Both callers have returned the one job launched for the key, and its
\* process runs.
C2_Witness ==
    /\ nJobs = 1
    /\ \A c \in Callers : cpc[c] = "idle" /\ cret[c] = 1
    /\ jobs[1].Cmd
    /\ Live(1)

\* C3: every job with Cached = true, in or out of the registry, has a
\* stream.m3u8 in its directory that contains #EXT-X-ENDLIST.
C3_CachedImpliesComplete ==
    \A j \in Allocated : jobs[j].Cached => Complete(jobs[j].Dir)

\* C4: once the process of a job for key k has exited with code 0, no step
\* removes or alters the directory of k.
C4_CompletedDirImmutable ==
    [][\A k \in Keys :
          (\E j \in JobsOf(k) : proc[j] = "ok") => fs'[k] = fs[k]]_vars

C6_AdoptsCompleteCache ==
    [][/\ \A c \in Callers, k \in Keys :
             (AdmitsFresh(c, k) /\ Complete(k)) =>
                 /\ nJobs' = nJobs + 1
                 /\ ~jobs'[nJobs'].Cmd
                 /\ jobs'[nJobs'].Cached
                 /\ jobs'[nJobs'].Done
                 /\ jobs'[nJobs'].Dir = k
                 /\ hlsJobs' = [hlsJobs EXCEPT ![k] = nJobs']
                 /\ cret'[c] = nJobs'
                 /\ cpc'[c] = "idle"
                 /\ hlsJobsMu' = 0
                 /\ UNCHANGED <<fs, proc, rpc>>
       /\ (nJobs' = nJobs + 1 /\ ~jobs'[nJobs'].Cmd) =>
             /\ Complete(jobs'[nJobs'].Dir)
             /\ UNCHANGED <<fs, proc, rpc>>]_vars

\* A job was adopted from the cache after the reaper had evicted the completed
\* job that wrote it.
C6_Witness ==
    \E j, i \in Allocated :
        /\ ~jobs[j].Cmd
        /\ hlsJobs[jobs[j].key] = j
        /\ i < j
        /\ jobs[i].Cmd
        /\ jobs[i].Cached
        /\ i \in evicted
        /\ jobs[i].key = jobs[j].key

C8_RetryStartsNewProcess ==
    [][\A c \in Callers, j \in Allocated :
          RetriesFailed(c, j) => (cpc'[c] = "mkdir" \/ nJobs' > nJobs)]_vars

\* C8 as amended: a getOrStartHLS that finds the failed job still resident
\* returns that job and starts nothing; a new job is created for a key only
\* while the registry has no entry for it.
C8_RetryReturnsFailedJob ==
    [][/\ \A c \in Callers, j \in Allocated :
             RetriesFailed(c, j) =>
                 /\ cret'[c] = j
                 /\ cpc'[c] = "idle"
                 /\ UNCHANGED <<hlsJobs, jobs, fs, proc, rpc, hlsJobsMu>>
       /\ nJobs' > nJobs => hlsJobs[jobs'[nJobs'].key] = 0]_vars

\* A caller is about to look up a key whose resident job has failed and whose
\* runner has returned.
C8_Witness ==
    \E c \in Callers :
        /\ cpc[c] = "lock"
        /\ hlsJobsMu = 0
        /\ hlsJobs[ckey[c]] # 0
        /\ proc[hlsJobs[ckey[c]]] = "err"
        /\ jobs[hlsJobs[ckey[c]]].Done

\* C9: no step of a runner goroutine changes the registry, an entry leaves the
\* registry only by StopHLS, and when a runner has returned its job has Done
\* fired and Cached = true exactly if the process exited with code 0.
C9_RunnerKeepsRegistry ==
    [][/\ \A j \in Allocated :
             (rpc[j] # "none" /\ rpc'[j] # rpc[j]) =>
                 UNCHANGED <<hlsJobs, evicted>>
       /\ \A k \in Keys :
             (hlsJobs[k] # 0 /\ hlsJobs'[k] # hlsJobs[k]) =>
                 (hlsJobs'[k] = 0 /\ spc' = "kill" /\ sjob' = hlsJobs[k])
       /\ \A j \in Allocated :
             rpc'[j] = "end" =>
                 /\ jobs'[j].Done
                 /\ jobs'[j].Cached <=> proc'[j] = "ok"]_vars

\* A failed job whose runner has returned is still the registry entry.
C9_Witness ==
    \E j \in Allocated :
        /\ rpc[j] = "end"
        /\ proc[j] = "err"
        /\ hlsJobs[jobs[j].key] = j
        /\ jobs[j].Done
        /\ ~jobs[j].Cached

\* C10: no transcoder process runs for a job that has no registry entry,
\* unless StopHLS is between deleting the entry and killing the process.
C10_NoProcessWithoutEntry ==
    \A j \in Allocated :
        Live(j) => (InRegistry(j) \/ (spc = "kill" /\ sjob = j))

\* Job j removes its directory in this step: the failure path of its runner
\* (cmd.Run() returned an error) or the os.RemoveAll of the StopHLS that
\* deleted it.
RemovesDir(j) ==
    \/ rpc[j] \in {"spawned", "wait"} /\ rpc'[j] = "close" /\ Failed(j)'
    \/ spc = "rm" /\ spc' = "idle" /\ sjob = j

\* Job i, admitted after j for the same key, has a process that writes into
\* the directory or has completed it.
LaterOwner(i, j) ==
    /\ i > j
    /\ jobs[i].Dir = jobs[j].Dir
    /\ proc[i] \in {"run", "ok"}
    /\ fs[jobs[i].Dir].exists

\* C11: the removal of a job's directory by StopHLS or by the failure path of
\* its runner never deletes a directory that a later-admitted job of the same
\* key is writing to or has completed.
C11_RemovalSparesLaterJob ==
    [][\A j \in Allocated :
          RemovesDir(j) => ~\E i \in Allocated : LaterOwner(i, j)]_vars

\* C18: TouchHLS stores lastAccess only into the job that is the registry
\* entry of its key and changes nothing else; a job deleted by StopHLS never
\* is a registry entry again; a getOrStartHLS that finds no entry adopts a
\* complete cache or goes on to launch, and no call returns a job that StopHLS
\* had deleted before the call looked the key up.
C18_TouchNeverReinserts ==
    [][/\ \A j \in Allocated :
             jobs'[j].lastAccess # jobs[j].lastAccess =>
                 /\ hlsJobs[jobs[j].key] = j
                 /\ jobs'[j] = [jobs[j] EXCEPT !.lastAccess = now]
                 /\ nJobs' = nJobs
                 /\ UNCHANGED <<hlsJobs, evicted, fs, proc, rpc>>
       /\ \A j \in evicted : \A k \in Keys : hlsJobs'[k] # j
       /\ \A c \in Callers, k \in Keys :
             AdmitsFresh(c, k) =>
                 IF Complete(k)
                 THEN nJobs' = nJobs + 1 /\ cret'[c] = nJobs' /\ ~jobs'[nJobs'].Cmd
                 ELSE cpc'[c] = "mkdir" /\ hlsJobsMu' = c
       /\ \A c \in Callers :
             (cpc[c] # "idle" /\ cpc'[c] = "idle" /\ cret'[c] > 0) =>
                 cret'[c] \notin evicted]_vars

\* After StopHLS deleted a job, a later call has launched and returned a new
\* job for the same key, and the deleted job is out of the registry.
C18_Witness ==
    \E j \in evicted, i \in Allocated, c \in Callers :
        /\ i > j
        /\ jobs[i].key = jobs[j].key
        /\ jobs[i].Cmd
        /\ hlsJobs[jobs[j].key] = i
        /\ cret[c] = i
        /\ cpc[c] = "idle"

\* C19: a getOrStartHLS that finds a registry entry under its key returns
\* that job and changes nothing else: registry, jobs (lastAccess, Cached and
\* Done included), directories, processes and runners stay as they are,
\* whatever the state of the resident job.
C19_ExistingEntryReturned ==
    [][\A c \in Callers :
          (cpc[c] = "lock" /\ cpc'[c] # "lock" /\ hlsJobs[ckey[c]] # 0) =>
              /\ cret'[c] = hlsJobs[ckey[c]]
              /\ cpc'[c] = "idle"
              /\ UNCHANGED <<hlsJobs, jobs, fs, proc, rpc, hlsJobsMu, evicted,
                             now, mtime>>]_vars

\* Two callers hold the same resident job, one that was adopted from the
\* cache: the second of them found it in the registry.
C19_Witness ==
    \E c, d \in Callers :
        /\ c # d
        /\ cpc[c] = "idle"
        /\ cpc[d] = "idle"
        /\ cret[c] > 0
        /\ cret[c] = cret[d]
        /\ hlsJobs[ckey[c]] = cret[c]
        /\ ~jobs[cret[c]].Cmd

\* Caller c takes a step of getOrStartHLS after the key is computed.
GosStep(c) == cpc[c] \in {"lock", "mkdir"} /\ cpc'[c] # cpc[c]

\* C16: the key a call computes is the key of the path and of the
\* modification time the file has at that moment, so that a modification of
\* the file changes the key of every later call; the call then works under
\* its own key only: with no entry under that key it admits afresh, whatever
\* is resident under an older key, and it leaves the directory, the registry
\* entry, the job and the process of every other key as they are.
C16_NewKeyAfterModification ==
    [][/\ \A c \in Callers :
             (cpc[c] = "idle" /\ cpc'[c] = "lock") =>
                 \E p \in Paths : ckey'[c] = <<p, mtime[p]>>
       /\ \A p \in Paths :
             mtime'[p] # mtime[p] =>
                 /\ hlsJobKey(p)' # hlsJobKey(p)
                 /\ hlsJobs[hlsJobKey(p)'] = 0
                 /\ UNCHANGED <<hlsJobs, jobs, fs, proc, rpc>>
       /\ \A c \in Callers :
             GosStep(c) =>
                 /\ \A k \in Keys \ {ckey[c]} :
                        /\ fs'[k] = fs[k]
                        /\ hlsJobs'[k] = hlsJobs[k]
                 /\ \A j \in Allocated :
                        jobs'[j] = jobs[j] /\ proc'[j] = proc[j] /\ rpc'[j] = rpc[j]
                 /\ (cpc[c] = "lock" /\ hlsJobs[ckey[c]] = 0) =>
                        (cpc'[c] = "mkdir" \/ nJobs' = nJobs + 1)]_vars

\* A job launched under the key of the modified file is resident next to the
\* cached job of the old key, whose directory still holds its artifact.
C16_Witness ==
    \E p \in Paths, i, j \in Allocated :
        /\ mtime[p] = 1
        /\ hlsJobs[<<p, 0>>] = i
        /\ hlsJobs[<<p, 1>>] = j
        /\ jobs[i].Cached
        /\ jobs[j].Cmd
        /\ Complete(<<p, 0>>)
        /\ fs[<<p, 1>>].exists

\* C17: when the wipe is over no directory is left under the cache root and
\* no key has a complete cache; the first getOrStartHLS of the next run finds
\* nothing to adopt and goes on to MkdirAll, and a launch that returns a job
\* has created the directory of its key and spawned the runner of that job.
C17_WipeThenFreshLaunch ==
    [][/\ main' = "exit" =>
             \A k \in Keys : ~fs'[k].exists /\ ~isCacheComplete(k)'
       /\ \A c \in Callers, k \in Keys :
             (AdmitsFresh(c, k) /\ nJobs = 0) =>
                 /\ cpc'[c] = "mkdir"
                 /\ nJobs' = 0
       /\ \A c \in Callers :
             (cpc[c] = "mkdir" /\ cpc'[c] = "idle" /\ cret'[c] # -1) =>
                 /\ ~fs[ckey[c]].exists
                 /\ fs'[ckey[c]].exists
                 /\ nJobs' = nJobs + 1
                 /\ cret'[c] = nJobs'
                 /\ hlsJobs'[ckey[c]] = nJobs'
                 /\ jobs'[nJobs'].Cmd
                 /\ rpc'[nJobs'] = "spawned"]_vars

\* After the wipe of a cache that held an artifact, the server runs, and the
\* process of the first job writes into a directory that holds nothing of the
\* earlier run.
C17_Witness ==
    /\ main = "serve"
    /\ nJobs = 1
    /\ jobs[1].Cmd
    /\ Live(1)
    /\ fs[jobs[1].Dir].exists
    /\ fs[jobs[1].Dir].writers = {1}

\* handleHLS takes a step.
HlsStep == hreq' # hreq

\* The request has a directory and goes on to poll or to serve.
Resolved(d) ==
    /\ hreq'.dir = d
    /\ hreq'.status = 0
    /\ hreq'.pc = IF \/ HasSuffix(hreq.name, <<".", "m", "3", "u", "8">>)
                     \/ HasSuffix(hreq.name, <<".", "t", "s">>)
                  THEN "poll" ELSE "serve"

\* The resolution of the directory: the directory of the resident job, else
\* the cache directory of the key if it is complete, else 404 with no poll.
HlsResolves ==
    /\ (hreq.pc = "lookup" /\ HlsStep) =>
           IF hlsJobs[hreq.key] # 0
           THEN Resolved(jobs[hlsJobs[hreq.key]].Dir)
           ELSE hreq'.pc = "cache" /\ hreq'.status = 0
    /\ (hreq.pc = "cache" /\ HlsStep) =>
           IF Complete(hreq.key)
           THEN Resolved(hreq.key)
           ELSE hreq'.status = 404 /\ hreq'.pc = "done" /\ hreq.polls = 0
    /\ hreq'.status = 200 =>
           \/ ~HlsStep
           \/ hreq.pc = "serve" /\ FileExists(hreq.dir, hreq.name)

\* No step of handleHLS inserts or removes a registry entry, or changes
\* anything but lastAccess.
HlsKeepsRegistry ==
    HlsStep =>
        /\ nJobs' = nJobs
        /\ UNCHANGED <<hlsJobs, evicted, hlsJobsMu, fs, proc, rpc>>

\* The response is 200, 404 or 503, and 503 comes from a polling loop only.
HlsOutcomes ==
    /\ hreq'.status \in {0, 200, 404, 503}
    /\ (HlsStep /\ hreq'.status = 503) => hreq.pc = "poll"

\* The request is for a name with "/" or "..", or for a name that is neither
\* a playlist nor a segment, or for a key with no registry entry and no
\* complete cache.
MalformedOrUnknown ==
    \/ hreq.pc \in {"idle", "done"} /\ Rejected(hreq'.name)
    \/ ~isPlaylist(hreq.name) /\ ~isSegment(hreq.name)
    \/ hreq.pc = "cache"

C13_TraversalRejectedFirst ==
    [][(/\ hreq.pc \in {"idle", "done"}
        /\ HlsStep
        /\ \/ Contains(hreq'.name, <<"/">>)
           \/ Contains(hreq'.name, <<".", ".">>)) =>
            /\ hreq'.status = 404
            /\ hreq'.pc = "done"
            /\ hreq'.job = 0
            /\ hreq'.dir = <<>>
            /\ UNCHANGED <<now, mtime, hlsJobsMu, hlsJobs, jobs, evicted, rpc,
                           proc, fs, cpc, ckey, cret, reaper, idleKeys, spc,
                           sjob, main, play>>]_vars

\* A request for "a..ts" has its 404 while a caller of getOrStartHLS holds
\* the mutex.
C13_Witness ==
    /\ hreq.pc = "done"
    /\ hreq.status = 404
    /\ Contains(hreq.name, <<".", ".">>)
    /\ ~Contains(hreq.name, <<"/">>)
    /\ hlsJobsMu # 0

\* The bound of the polling loop of a name.
LimitOf(name) ==
    IF HasSuffix(name, <<".", "m", "3", "u", "8">>) THEN playlistPolls
    ELSE segmentPolls

\* How far the request has come.
Rank(h) ==
    CASE h.pc = "idle" -> 0
      [] h.pc = "lookup" -> 1000
      [] h.pc = "cache" -> 2000
      [] h.pc = "poll" -> 3000 + h.polls
      [] h.pc = "serve" -> 4000
      [] h.pc = "done" -> 5000

Walkable(boxes, n, i) ==
    LET s == BoxStart(boxes, n, i)
    IN  /\ s >= 0
        /\ s + headerLen(boxes[i]) <= n
        /\ DeclaredSize(boxes[i], s, n) >= 8

\* The boxes a walk from offset 0 comes across: those before the first box
\* whose header cannot be read or declares less than 8 bytes.
Encountered(boxes, n) ==
    {i \in 1..Len(boxes) : \A j \in 1..i : Walkable(boxes, n, j)}

\* moov comes before any mdat among the boxes encountered, or neither is
\* among them.
MoovFirst(boxes, n) ==
    LET marks == {i \in Encountered(boxes, n) :
                     boxes[i].typ \in {"moov", "mdat"}}
    IN  \/ marks = {}
        \/ boxes[CHOOSE i \in marks : \A j \in marks : i <= j].typ = "moov"

\* C20: for every box sequence and file length, hasMoovAtFront returns true
\* if moov is encountered before any mdat or if the walk ends having seen
\* neither, and false if mdat is encountered first.
C20_MoovBeforeMdat ==
    (play.pc = "done" /\ play.ret = "caller") =>
        play.moov = MoovFirst(play.boxes, play.size)

\* The walk went past a box with a 64-bit size and returned false at the
\* mdat box behind it.
C20_Witness ==
    /\ play.pc = "done"
    /\ play.ret = "caller"
    /\ play.moov = FALSE
    /\ Len(play.boxes) = 2
    /\ play.boxes[1].size = Word64(1)
    /\ play.boxes[2].typ = "mdat"

WalkOn == play.pc = "walk" /\ play'.pc = "walk"

\* The size field read at the offset is 0, or is 1 with a 64-bit size of 0:
\* the box reaches to the end of the file.
ToEndOfFile ==
    LET h == HeaderAt(play.boxes, play.size, play.offset)
    IN  /\ ReadOk(play.size, play.offset, 8)
        /\ \/ h.size = Word64(0)
           \/ /\ h.size = Word64(1)
              /\ ReadOk(play.size, Add64(play.offset, Word64(8)), 8)
              /\ h.large = Word64(0)

\* C21 as claimed: every turn of the loop that does not stop moves the offset
\* forward by at least 8 bytes.
C21_AdvancesByEight ==
    [][WalkOn => Clip(play'.offset) >= Clip(play.offset) + 8]_vars

\* C21 as amended: the walk ends for every file; a turn that does not stop
\* has read a header inside the file and leaves an offset at least 8 bytes
\* further on, or a negative one when the int64 addition has overflowed; a
\* turn at a negative offset or at one past the last header stops; a box that
\* reaches to the end of the file stops the walk in its turn or in the next.
C21_WalkTerminates ==
    /\ [][/\ WalkOn =>
                /\ Clip(play.offset) >= 0
                /\ Clip(play.offset) + 8 <= play.size
                /\ \/ Clip(play'.offset) >= Clip(play.offset) + 8
                   \/ Clip(play'.offset) = -1
          /\ (/\ play.pc = "walk"
              /\ play'.pc # play.pc
              /\ \/ Clip(play.offset) = -1
                 \/ Clip(play.offset) + 8 > play.size) =>
                /\ play'.pc = "done"
                /\ play'.moov = TRUE
          /\ (WalkOn /\ ToEndOfFile) => play'.offset = Word64(play.size)]_vars
    /\ (play.pc = "open") ~> (play.pc = "done")

\* The offset is negative: a box of 2^63 - 1 bytes was added to an offset that
\* was not 0.
C21_Witness ==
    /\ play.pc = "walk"
    /\ Negative(play.offset)
    /\ Len(play.boxes) = 2
    /\ play.boxes[2].large = <<Limb \div 2 - 1, Limb - 1, Limb - 1, Limb - 1>>

\* The codec name the answer of ffprobe carries, empty when it carries none.
CodecIn(r) ==
    IF \E c \in CodecNames : r = [err |-> FALSE, out |-> ProbeLine(c)]
    THEN CHOOSE c \in CodecNames : r = [err |-> FALSE, out |-> ProbeLine(c)]
    ELSE <<>>

\* The command copies the video stream through the Annex B filter.
CopyMode ==
    /\ Contains(play.args, <<"-c:v", "copy", "-bsf:v", "h264_mp4toannexb">>)
    /\ ~Contains(play.args, <<"-force_key_frames">>)

\* The command encodes the video stream anew, with forced key frames.
TranscodeMode ==
    /\ Contains(play.args, <<"-force_key_frames", "expr:gte(t,n_forced*2)">>)
    /\ \/ Contains(play.args, <<"-c:v", "libx264">>)
       \/ Contains(play.args, <<"-c:v", "h264_videotoolbox">>)
    /\ ~Contains(play.args, <<"copy">>)
    /\ ~Contains(play.args, <<"-bsf:v">>)

\* The file is served as it is.
DirectServe == play.useHLS = FALSE /\ play.args = <<>>

\* C22: the launched command copies the video stream, with the Annex B
\* filter, exactly if the codec ffprobe names is h264, avc1 or avc; for every
\* other answer, a failed probe included, it transcodes with forced key
\* frames; and a file ends in exactly one of direct serve, HLS copy and HLS
\* transcode.
C22_ModeSelection ==
    /\ play.pc = "launched" =>
          /\ play.useHLS = TRUE
          /\ CopyMode <=>
                CodecIn(play.probe) \in
                    {<<"h", "2", "6", "4">>, <<"a", "v", "c", "1">>,
                     <<"a", "v", "c">>}
          /\ TranscodeMode <=> ~CopyMode
          /\ SubSeq(play.args, 1, 4) = <<"-loglevel", "error", "-i", "filePath">>
          /\ play.args[Len(play.args)] = "m3u8Path"
    /\ (play.pc = "done" /\ play.useHLS = FALSE) => play.args = <<>>
    /\ (play.pc = "launched" \/ (play.pc = "done" /\ play.useHLS = FALSE)) =>
          Cardinality({m \in {"direct", "copy", "transcode"} :
                          \/ m = "direct" /\ DirectServe
                          \/ m = "copy" /\ play.useHLS = TRUE /\ CopyMode
                          \/ m = "transcode" /\ play.useHLS = TRUE
                                             /\ TranscodeMode}) = 1

\* An MP4 file of 500 MiB with mdat before moov went to HLS; ffprobe named
\* H264 in capitals and the command transcodes.
C22_Witness ==
    /\ play.pc = "launched"
    /\ play.name = <<"a", ".", "m", "p", "4">>
    /\ play.moov = FALSE
    /\ play.probe = [err |-> FALSE, out |-> ProbeLine(<<"H", "2", "6", "4">>)]
    /\ play.codec = <<"H", "2", "6", "4">>
    /\ TranscodeMode

\* Caller c comes back from MkdirAll with an error.
MkdirFails(c) == cpc[c] = "mkdir" /\ cpc'[c] = "idle" /\ cret'[c] = -1

\* C23: when MkdirAll fails, getOrStartHLS returns an error and no job: the
\* key has no registry entry before and after, no job is created, no runner
\* and no process is started, no directory changes, and the mutex, held by
\* the caller, is released; a later call that finds no entry under the key is
\* admitted anew (it adopts a complete cache or goes on to MkdirAll), and no
\* call is ever in MkdirAll without holding the mutex.
C23_MkdirErrorLeavesNothing ==
    [][/\ \A c \in Callers :
             MkdirFails(c) =>
                 /\ hlsJobs[ckey[c]] = 0
                 /\ hlsJobsMu = c
                 /\ hlsJobsMu' = 0
                 /\ nJobs' = nJobs
                 /\ UNCHANGED <<hlsJobs, jobs, evicted, rpc, proc, fs>>
       /\ \A c \in Callers : cpc[c] = "mkdir" => hlsJobsMu = c
       /\ \A c \in Callers, k \in Keys :
             AdmitsFresh(c, k) =>
                 \/ cpc'[c] = "mkdir" /\ hlsJobsMu' = c
                 \/ /\ Complete(k)
                    /\ cret'[c] = nJobs + 1
                    /\ hlsJobs'[k] = nJobs + 1]_vars

\* One call has returned the error; after it another call for the same key
\* was admitted and has launched the first job.
C23_Witness ==
    \E c, d \in Callers :
        /\ cpc[c] = "idle"
        /\ cret[c] = -1
        /\ cpc[d] = "idle"
        /\ cret[d] = 1
        /\ ckey[d] = ckey[c]
        /\ nJobs = 1
        /\ jobs[1].Cmd
        /\ hlsJobs[ckey[c]] = 1
        /\ evicted = {}

\* A request with an accepted file name comes in for key k.
Accepted(k) ==
    /\ hreq.pc \in {"idle", "done"}
    /\ hreq'.pc = "lookup"
    /\ hreq'.key = k

\* C24: the first step of a request with an accepted file name stores the
\* time into lastAccess of the job resident under its key, whatever the state
\* of that job, before a directory is resolved and before any poll, and no
\* later step of the request, its 503 included, stores anything into a job;
\* the reaper collects a key only when its job was last accessed, and the
\* last accepted request came in, more than 60 s before, and stops collected
\* keys only: a job, failed or not, whose requests keep coming at intervals of
\* 60 s or less is not reaped.
C24_RequestsKeepJobAlive ==
    [][/\ \A k \in Keys :
             (Accepted(k) /\ hlsJobs[k] # 0) =>
                 /\ jobs' = [jobs EXCEPT ![hlsJobs[k]].lastAccess = now]
                 /\ hreq'.at = now
                 /\ hreq'.dir = <<>>
                 /\ hreq'.polls = 0
                 /\ hreq'.status = 0
       /\ (HlsStep /\ hreq.pc \notin {"idle", "done"}) =>
             /\ hreq'.at = hreq.at
             /\ UNCHANGED <<jobs, hlsJobs, evicted, idleKeys>>
       /\ \A k \in Keys :
             (k \in idleKeys' /\ k \notin idleKeys) =>
                 /\ hlsJobs[k] # 0
                 /\ now - jobs[hlsJobs[k]].lastAccess > hlsIdleTimeout
                 /\ now - hreq.at > hlsIdleTimeout
       /\ \A k \in Keys :
             (hlsJobs[k] # 0 /\ hlsJobs'[k] = 0) => k \in idleKeys]_vars

\* A request came in for a failed job, polled 150 times and was answered
\* 503; 60 s after it the reaper has swept and has not collected the job.
C24_Witness ==
    \E j \in Allocated :
        /\ hlsJobs[hreq.key] = j
        /\ proc[j] = "err"
        /\ rpc[j] = "close"
        /\ hreq.pc = "done"
        /\ hreq.status = 503
        /\ jobs[j].lastAccess = hreq.at
        /\ hreq.at > StartTime
        /\ now - hreq.at = hlsIdleTimeout
        /\ reaper = "sweep"
        /\ idleKeys = {}
        /\ evicted = {}

\* Job j is created in this step.
Created(j) == j = nJobs' /\ nJobs' = nJobs + 1

\* close(job.Done) is executed for job j in this step: at the creation of an
\* adopted job, or by the deferred call of the runner.
Closes(j) ==
    \/ Created(j) /\ ~jobs'[j].Cmd
    \/ j \in Allocated /\ rpc[j] = "close" /\ rpc'[j] = "end"

\* C25: Done is closed once per job and never a second time: for an adopted
\* job at its creation, with Cached = true and no runner ever; for a launched
\* job by its runner when it returns, be the process finished, failed, killed
\* by StopHLS or never started, and the runner runs once.  Done is closed
\* exactly in those steps and stays closed; at the close Cached has the value
\* it keeps (true exactly for a process that exited with code 0), and the
\* runner of a failed job has removed the directory in an earlier step.
C25_DoneFiresOnce ==
    [][\A j \in 1..nJobs' :
          /\ Closes(j) => (j \in Allocated => ~jobs[j].Done) /\ jobs'[j].Done
          /\ (j \in Allocated /\ jobs'[j].Done /\ ~jobs[j].Done) => Closes(j)
          /\ Created(j) =>
                IF jobs'[j].Cmd
                THEN ~jobs'[j].Done /\ ~jobs'[j].Cached /\ rpc'[j] = "spawned"
                ELSE jobs'[j].Done /\ jobs'[j].Cached /\ rpc'[j] = "none"
          /\ j \in Allocated =>
                /\ jobs[j].Done =>
                      /\ jobs'[j].Done
                      /\ jobs'[j].Cached = jobs[j].Cached
                      /\ rpc'[j] = rpc[j]
                /\ rpc[j] = "none" => rpc'[j] = "none"
                /\ (rpc[j] = "close" /\ rpc'[j] = "end") =>
                      /\ jobs'[j].Cached = jobs[j].Cached
                      /\ jobs[j].Cached <=> proc[j] = "ok"
                      /\ UNCHANGED <<fs, proc, hlsJobs>>
                /\ (rpc[j] # "close" /\ rpc'[j] = "close") =>
                      IF proc'[j] = "ok"
                      THEN jobs'[j].Cached /\ fs' = fs
                      ELSE ~jobs'[j].Cached /\ fs' = RemoveAll(jobs[j].Dir)
                /\ rpc'[j] = "end" => rpc[j] \in {"close", "end"}]_vars

\* StopHLS has killed the process of a job and removed its directory, and the
\* runner of the job has returned and closed Done.
C25_Witness ==
    \E j \in evicted :
        /\ jobs[j].Cmd
        /\ proc[j] = "err"
        /\ rpc[j] = "end"
        /\ jobs[j].Done
        /\ ~jobs[j].Cached
        /\ sjob = j
        /\ spc = "idle"

\* C26 as claimed: every job the reaper's StopHLS deletes from the registry is
\* idle at the moment it is deleted: its lastAccess is more than 60 s in the
\* past.
C26_StoppedJobsAreIdle ==
    [][\A k \in Keys :
          (hlsJobs[k] # 0 /\ hlsJobs'[k] = 0) =>
              now - jobs[hlsJobs[k]].lastAccess > hlsIdleTimeout]_vars

\* C26 as amended: the reaper collects, under the mutex, exactly the keys of
\* the resident jobs whose lastAccess is more than 60 s in the past; as long
\* as a key is collected its registry entry stays the job that was collected,
\* so that no new job is admitted under it; StopHLS deletes under collected
\* keys only and does not look at lastAccess again: the job it deletes was
\* idle when collected and is either still idle or was touched since.
C26_StopsWhatWasCollected ==
    [][/\ (reaper = "woken" /\ reaper' = "sweep") =>
             idleKeys' = {k \in Keys :
                             /\ hlsJobs[k] # 0
                             /\ jobs[hlsJobs[k]].lastAccess > 0
                             /\ now - jobs[hlsJobs[k]].lastAccess > 60}
       /\ \A k \in idleKeys :
             /\ hlsJobs[k] # 0
             /\ hlsJobs'[k] # hlsJobs[k] =>
                   /\ hlsJobs'[k] = 0
                   /\ k \notin idleKeys'
                   /\ sjob' = hlsJobs[k]
       /\ \A k \in Keys :
             (hlsJobs[k] # 0 /\ hlsJobs'[k] = 0) =>
                 /\ k \in idleKeys
                 /\ \/ now - jobs[hlsJobs[k]].lastAccess > hlsIdleTimeout
                    \/ jobs[hlsJobs[k]].lastAccess = now
       /\ (reaper = "sweep" /\ idleKeys # {}) => now' = now]_vars

\* StopHLS has deleted, and is about to kill, a job whose process runs and
\* that was touched after the reaper had collected its key.
C26_Witness ==
    /\ spc = "kill"
    /\ sjob \in evicted
    /\ Live(sjob)
    /\ jobs[sjob].lastAccess = now
    /\ now > StartTime + hlsIdleTimeout

\* Positions at which an operation waits for hlsJobsMu.
WaitsForLock(c) == cpc[c] = "lock"

\* The caller holds hlsJobsMu while ffprobe, an external process, runs.
AwaitsProbe(c) == cpc[c] = "probe" /\ hlsJobsMu = c

HeldOnLaunchPathOnly ==
    /\ hlsJobsMu \in {0} \cup Callers
    /\ \A c \in Callers : (hlsJobsMu = c) <=> (cpc[c] \in {"mkdir", "probe"})

\* StopHLS is called by the reaper after its scan has released the mutex,
\* and takes the mutex itself: no key leaves idleKeys while the mutex is held.
StopsOutsideLock ==
    (reaper = "sweep" /\ idleKeys' # idleKeys) =>
        (hlsJobsMu = 0 /\ hlsJobsMu' = 0)

============================================================================
